---- MODULE Spec2Model ----
(***************************************************************************)
(* Storefront catalog query and selection engine                           *)
(* (web/src/components/storefront.tsx).                                    *)
(*                                                                         *)
(* Strings are sequences of one-character strings, so that trim,           *)
(* toLowerCase, join, includes and the fulfillment-time regular expression *)
(* are computed character by character.                                    *)
(*                                                                         *)
(* Money is kept exact: BDT_TO_USD = 0.0091 is the fraction                *)
(* BDT_TO_USD_NUM / BDT_TO_USD_DEN, and a USD-equivalent amount is held in *)
(* units of 1/BDT_TO_USD_DEN dollar.  The prices of ProductPool are        *)
(* integers for which the IEEE-754 double comparisons of the source agree  *)
(* with the exact ones.  Hours are held doubled, so that (min + max) / 2   *)
(* stays an integer.                                                       *)
(***************************************************************************)
EXTENDS Integers, Sequences, FiniteSets, TLC

VARIABLES
    items,              \* the Product[] prop of Storefront (read-only)
    filters,            \* useState<Filters>
    selectedProducts,   \* useState<string[]>
    filteredProducts,   \* useMemo over [items, filters]
    selections,         \* useMemo over [items, selectedProducts]
    lastEvent,          \* history: the selection handler that ran last
    phrase,             \* parser specification: how the input text is written
    text,               \* parser specification: the input of parseHours
    hours               \* parser specification: the result of parseHours

vars == <<items, filters, selectedProducts, filteredProducts, selections,
          lastEvent, phrase, text, hours>>

----------------------------------------------------------------------------
(* Bounds *)

MaxItems == 2
MaxDigits == 2

----------------------------------------------------------------------------
(* Strings *)

UpperAlpha == <<"A","B","C","D","E","F","G","H","I","J","K","L","M",
                "N","O","P","Q","R","S","T","U","V","W","X","Y","Z">>
LowerAlpha == <<"a","b","c","d","e","f","g","h","i","j","k","l","m",
                "n","o","p","q","r","s","t","u","v","w","x","y","z">>

\* the lower-case letter of every upper-case letter
LowerOf ==
    [c \in {UpperAlpha[i] : i \in 1..Len(UpperAlpha)} |->
        LowerAlpha[CHOOSE i \in 1..Len(UpperAlpha) : UpperAlpha[i] = c]]

ToLowerChar(c) == IF c \in DOMAIN LowerOf THEN LowerOf[c] ELSE c

toLowerCase(s) == [i \in 1..Len(s) |-> ToLowerChar(s[i])]

IsSpace(c) == c = " "

RECURSIVE TrimStart(_)
TrimStart(s) ==
    IF s # <<>> /\ IsSpace(Head(s)) THEN TrimStart(Tail(s)) ELSE s

RECURSIVE TrimEnd(_)
TrimEnd(s) ==
    IF s # <<>> /\ IsSpace(s[Len(s)])
    THEN TrimEnd(SubSeq(s, 1, Len(s) - 1))
    ELSE s

trim(s) == TrimEnd(TrimStart(s))

\* Array.prototype.join: the elements separated by sep
RECURSIVE join(_, _)
join(parts, sep) ==
    IF parts = <<>> THEN <<>>
    ELSE IF Len(parts) = 1 THEN parts[1]
    ELSE parts[1] \o sep \o join(Tail(parts), sep)

\* String.prototype.includes: scan the start positions from the left
RECURSIVE IncludesFrom(_, _, _)
IncludesFrom(s, needle, i) ==
    IF i + Len(needle) - 1 > Len(s) THEN FALSE
    ELSE IF SubSeq(s, i, i + Len(needle) - 1) = needle THEN TRUE
    ELSE IncludesFrom(s, needle, i + 1)

includes(s, needle) == IncludesFrom(s, needle, 1)

----------------------------------------------------------------------------
(* Currency *)

BDT_TO_USD_NUM == 91
BDT_TO_USD_DEN == 10000

\* in units of 1/BDT_TO_USD_DEN dollar
calcUsd(product) ==
    IF product.currency = "USD"
    THEN product.price * BDT_TO_USD_DEN
    ELSE product.price * BDT_TO_USD_NUM

----------------------------------------------------------------------------
(* Duration parser: /(\d+)(?:-(\d+))?\s*(hour|day)/i *)

Digits == <<"0","1","2","3","4","5","6","7","8","9">>

DigitValueOf ==
    [c \in {Digits[d] : d \in 1..Len(Digits)} |->
        (CHOOSE d \in 1..Len(Digits) : Digits[d] = c) - 1]

IsDigit(c) == c \in DOMAIN DigitValueOf

DigitValue(c) == DigitValueOf[c]

\* Number.parseInt(s, 10) of a string of decimal digits
RECURSIVE parseInt(_)
parseInt(s) ==
    IF s = <<>> THEN 0
    ELSE 10 * parseInt(SubSeq(s, 1, Len(s) - 1)) + DigitValue(s[Len(s)])

HOUR == <<"h","o","u","r">>
DAY == <<"d","a","y">>

\* the alternation (hour|day) under the i flag, tried at position u
UnitAt(t, u) ==
    IF u + 3 <= Len(t) /\ toLowerCase(SubSeq(t, u, u + 3)) = HOUR
    THEN SubSeq(t, u, u + 3)
    ELSE IF u + 2 <= Len(t) /\ toLowerCase(SubSeq(t, u, u + 2)) = DAY
    THEN SubSeq(t, u, u + 2)
    ELSE <<>>

\* the last position of the run of digits that starts at position i
\* (i - 1 when t[i] is no digit)
RECURSIVE DigitRunEnd(_, _)
DigitRunEnd(t, i) ==
    IF i <= Len(t) /\ IsDigit(t[i]) THEN DigitRunEnd(t, i + 1) ELSE i - 1

\* the ends j of the non-empty digit strings t[i..j], for \d+
DigitRunEnds(t, i) == i..DigitRunEnd(t, i)

RECURSIVE SpaceRunEnd(_, _)
SpaceRunEnd(t, i) ==
    IF i <= Len(t) /\ IsSpace(t[i]) THEN SpaceRunEnd(t, i + 1) ELSE i - 1

\* the lengths w of the white-space strings that start at position i, for \s*
SpaceRunLengths(t, i) == 0..(SpaceRunEnd(t, i) + 1 - i)

\* Every way the pattern matches t when it starts at position i:
\* group 1 is t[i..j], the optional group is "-" t[j+2..k] (k = j when it
\* is skipped), w white-space characters follow, then the unit.
MatchesAt(t, i) ==
    LET heads ==
            UNION { {[j |-> j, has2 |-> FALSE, k |-> j]} \cup
                    ( IF j + 1 <= Len(t) /\ t[j + 1] = "-"
                      THEN { [j |-> j, has2 |-> TRUE, k |-> k] :
                                k \in DigitRunEnds(t, j + 2) }
                      ELSE {} ) : j \in DigitRunEnds(t, i) }
    IN  UNION { { [j |-> h.j, has2 |-> h.has2, k |-> h.k, w |-> w] :
                    w \in { x \in SpaceRunLengths(t, h.k + 1) :
                              UnitAt(t, h.k + x + 1) # <<>> } } : h \in heads }

\* The backtracking order of the engine: \d+ greedy, the optional group
\* taken before it is skipped, the second \d+ greedy, \s* greedy.
Preferred(a, b) ==
    \/ a.j > b.j
    \/ a.j = b.j /\ a.has2 /\ ~b.has2
    \/ a.j = b.j /\ a.has2 = b.has2 /\ a.k > b.k
    \/ a.j = b.j /\ a.has2 = b.has2 /\ a.k = b.k /\ a.w >= b.w

NoMatch == [found |-> FALSE, g1 |-> <<>>, has2 |-> FALSE, g2 |-> <<>>, g3 |-> <<>>]

\* the groups of the match m that starts at position i
Groups(t, i, m) ==
    [found |-> TRUE,
     g1 |-> SubSeq(t, i, m.j),
     has2 |-> m.has2,
     g2 |-> IF m.has2 THEN SubSeq(t, m.j + 2, m.k) ELSE <<>>,
     g3 |-> UnitAt(t, m.k + m.w + 1)]

\* the match the engine reaches first among all
FirstTried(all) == CHOOSE a \in all : \A b \in all : Preferred(a, b)

\* String.prototype.match without the g flag: the leftmost start wins
RECURSIVE MatchFrom(_, _)
MatchAmong(t, i, all) ==
    IF all = {} THEN MatchFrom(t, i + 1) ELSE Groups(t, i, FirstTried(all))

MatchFrom(t, i) ==
    IF i > Len(t) THEN NoMatch ELSE MatchAmong(t, i, MatchesAt(t, i))

match(t) == MatchFrom(t, 1)

\* Numbers of the comparators: finite (held doubled in twice) or +Infinity
POSITIVE_INFINITY == [inf |-> TRUE, twice |-> 0]
Finite(n2) == [inf |-> FALSE, twice |-> n2]

startsWith(s, prefix) ==
    Len(s) >= Len(prefix) /\ SubSeq(s, 1, Len(prefix)) = prefix

\* (min + max) / 2, times 24 for a unit that starts with "day"; doubled
Average(min, max, unit) ==
    Finite(IF startsWith(unit, DAY) THEN (min + max) * 24 ELSE min + max)

\* HoursOfMatch that tests the unit as it is written
HoursOfMatch_CaseSensitive(m) ==
    IF ~m.found THEN POSITIVE_INFINITY
    ELSE Average(parseInt(m.g1),
                 parseInt(IF m.has2 THEN m.g2 ELSE m.g1),
                 m.g3)

\* the body of parseHours after the match
HoursOfMatch(m) ==
    IF ~m.found THEN POSITIVE_INFINITY
    ELSE Average(parseInt(m.g1),
                 parseInt(IF m.has2 THEN m.g2 ELSE m.g1),
                 toLowerCase(m.g3))

parseHours(time) == HoursOfMatch(match(time))

----------------------------------------------------------------------------
(* Sort engine *)

SortOptions == {"recommended", "price-asc", "price-desc", "fulfillment"}

\* Values a comparator can return
Num(n) == [kind |-> "num", v |-> n]
NaN == [kind |-> "nan", v |-> 0]

\* Minus with Infinity - Infinity taken for -Infinity
Minus_NoNaN(x, y) ==
    IF y.inf THEN [kind |-> "-inf", v |-> 0]
    ELSE IF x.inf THEN [kind |-> "+inf", v |-> 0]
    ELSE Num(x.twice - y.twice)

\* x - y on numbers that are finite or +Infinity
Minus(x, y) ==
    IF x.inf /\ y.inf THEN NaN
    ELSE IF x.inf THEN [kind |-> "+inf", v |-> 0]
    ELSE IF y.inf THEN [kind |-> "-inf", v |-> 0]
    ELSE Num(x.twice - y.twice)

\* SORTERS comparing the prices as written, whatever their currency
SORTERS_RawPrice(sort, a, b) ==
    CASE sort = "recommended" -> Num(b.popularity - a.popularity)
      [] sort = "price-asc" -> Num(a.price - b.price)
      [] sort = "price-desc" -> Num(b.price - a.price)
      [] sort = "fulfillment" ->
            Minus(parseHours(a.fulfillmentTime), parseHours(b.fulfillmentTime))

\* SORTERS with the comparator of "price-asc" under "price-desc" too
SORTERS_OnePriceOrder(sort, a, b) ==
    CASE sort = "recommended" -> Num(b.popularity - a.popularity)
      [] sort = "price-asc" -> Num(calcUsd(a) - calcUsd(b))
      [] sort = "price-desc" -> Num(calcUsd(a) - calcUsd(b))
      [] sort = "fulfillment" ->
            Minus(parseHours(a.fulfillmentTime), parseHours(b.fulfillmentTime))

SORTERS(sort, a, b) ==
    CASE sort = "recommended" -> Num(b.popularity - a.popularity)
      [] sort = "price-asc" -> Num(calcUsd(a) - calcUsd(b))
      [] sort = "price-desc" -> Num(calcUsd(b) - calcUsd(a))
      [] sort = "fulfillment" ->
            Minus(parseHours(a.fulfillmentTime), parseHours(b.fulfillmentTime))

\* the sign Array.prototype.sort reads off a comparator result: NaN counts
\* as +0
Sign(v) ==
    CASE v.kind = "nan" -> 0
      [] v.kind = "+inf" -> 1
      [] v.kind = "-inf" -> -1
      [] v.kind = "num" -> IF v.v < 0 THEN -1 ELSE IF v.v > 0 THEN 1 ELSE 0

\* String(product), by which Array.prototype.sort orders when it is given no
\* comparator
ObjectToString(product) == "[object Object]"

\* the default order of Array.prototype.sort: equal strings compare equal
DefaultCompare(a, b) ==
    IF ObjectToString(a) = ObjectToString(b) THEN 0 ELSE 1

\* SortCompare of Array.prototype.sort; SORTERS[sort] is undefined for a key
\* that is not a property of SORTERS, and sort(undefined) is the default sort
SortCompare(sort, a, b) ==
    IF sort \in SortOptions
    THEN Sign(SORTERS(sort, a, b))
    ELSE DefaultCompare(a, b)

\* Insert that puts x before the elements it compares equal to
RECURSIVE Insert_Unstable(_, _, _)
Insert_Unstable(sorted, x, sort) ==
    IF sorted = <<>> THEN <<x>>
    ELSE IF SortCompare(sort, x, Head(sorted)) <= 0 THEN <<x>> \o sorted
    ELSE <<Head(sorted)>> \o Insert_Unstable(Tail(sorted), x, sort)

\* x goes before the first element it is strictly smaller than
RECURSIVE Insert(_, _, _)
Insert(sorted, x, sort) ==
    IF sorted = <<>> THEN <<x>>
    ELSE IF SortCompare(sort, x, Head(sorted)) < 0 THEN <<x>> \o sorted
    ELSE <<Head(sorted)>> \o Insert(Tail(sorted), x, sort)

\* Array.prototype.sort: a stable sort by the comparator
RECURSIVE SortFrom(_, _, _)
SortFrom(sorted, rest, sort) ==
    IF rest = <<>> THEN sorted
    ELSE SortFrom(Insert(sorted, Head(rest), sort), Tail(rest), sort)

Sort(seq, sort) == SortFrom(<<>>, seq, sort)

----------------------------------------------------------------------------
(* Filter engine *)

SPACE == <<" ">>

\* product.badges?.join(" "); join renders an undefined element as ""
BadgeText(product) ==
    IF product.badges.present THEN join(product.badges.labels, SPACE) ELSE <<>>

matchesCategory(product, f) ==
    f.category = "All" \/ product.category = f.category

matchesCurrency(product, f) ==
    f.currency = "Any" \/ product.currency = f.currency

\* matchesPrice with < for <=
matchesPrice_Strict(product, f) ==
    calcUsd(product) < f.maxPrice * BDT_TO_USD_DEN

matchesPrice(product, f) ==
    calcUsd(product) <= f.maxPrice * BDT_TO_USD_DEN

matchesSearch(product, f) ==
    LET normalizedSearch == toLowerCase(trim(f.search)) IN
    \/ Len(normalizedSearch) = 0
    \/ includes(toLowerCase(join(<<product.name, product.description,
                                   BadgeText(product)>>, SPACE)),
                normalizedSearch)

Matches(product, f) ==
    /\ matchesCategory(product, f)
    /\ matchesCurrency(product, f)
    /\ matchesPrice(product, f)
    /\ matchesSearch(product, f)

\* Filter that collects the matches in front of the earlier ones
RECURSIVE Filter_Prepending(_, _)
Filter_Prepending(seq, f) ==
    IF seq = <<>> THEN <<>>
    ELSE IF Matches(Head(seq), f)
    THEN Filter_Prepending(Tail(seq), f) \o <<Head(seq)>>
    ELSE Filter_Prepending(Tail(seq), f)

\* Array.prototype.filter with the predicate of filteredProducts
RECURSIVE Filter(_, _)
Filter(seq, f) ==
    IF seq = <<>> THEN <<>>
    ELSE IF Matches(Head(seq), f) THEN <<Head(seq)>> \o Filter(Tail(seq), f)
    ELSE Filter(Tail(seq), f)

\* ComputeFilteredProducts without the sort
ComputeFilteredProducts_Unsorted(its, f) == Filter(its, f)

\* the useMemo body of filteredProducts
ComputeFilteredProducts(its, f) == Sort(Filter(its, f), f.sort)

----------------------------------------------------------------------------
(* Selection *)

\* Array.prototype.includes on the id list
Contains(ids, id) == \E i \in 1..Len(ids) : ids[i] = id

RECURSIVE Without(_, _)
Without(ids, id) ==
    IF ids = <<>> THEN <<>>
    ELSE IF Head(ids) # id THEN <<Head(ids)>> \o Without(Tail(ids), id)
    ELSE Without(Tail(ids), id)

\* toggleSelection that adds the id whether or not it is selected
toggleSelection_AlwaysAdds(prev, id) == Append(prev, id)

\* the updater passed to setSelectedProducts by toggleSelection
toggleSelection(prev, id) ==
    IF Contains(prev, id) THEN Without(prev, id) ELSE Append(prev, id)

\* the ids of the displayed products only
AllIds_Displayed(its) ==
    [i \in 1..Len(filteredProducts) |-> filteredProducts[i].id]

\* AllIds put behind the ids that are selected already
AllIds_Appended(its) ==
    selectedProducts \o [i \in 1..Len(its) |-> its[i].id]

\* items.map((product) => product.id)
AllIds(its) == [i \in 1..Len(its) |-> its[i].id]

\* ComputeSelections that looks each selected id up, in the order of the
\* selection list
RECURSIVE ComputeSelections_SelectionOrder(_, _)
ComputeSelections_SelectionOrder(its, sel) ==
    IF sel = <<>> THEN <<>>
    ELSE SelectSeq(its, LAMBDA p : p.id = Head(sel))
            \o ComputeSelections_SelectionOrder(its, Tail(sel))

\* the useMemo body of selections
RECURSIVE ComputeSelections(_, _)
ComputeSelections(its, sel) ==
    IF its = <<>> THEN <<>>
    ELSE IF Contains(sel, Head(its).id)
    THEN <<Head(its)>> \o ComputeSelections(Tail(its), sel)
    ELSE ComputeSelections(Tail(its), sel)

----------------------------------------------------------------------------
(* Cart summary *)

\* estimatedUsd that adds the prices as written
RECURSIVE SumUsd_RawPrice(_)
SumUsd_RawPrice(sel) ==
    IF sel = <<>> THEN 0
    ELSE Head(sel).price * BDT_TO_USD_DEN + SumUsd_RawPrice(Tail(sel))

\* selections.reduce((total, product) => total + calcUsd(product), 0),
\* in units of 1/BDT_TO_USD_DEN dollar
RECURSIVE SumUsd(_)
SumUsd(sel) ==
    IF sel = <<>> THEN 0 ELSE calcUsd(Head(sel)) + SumUsd(Tail(sel))

\* BdtTerm that divides every price by the rate
BdtTerm_AlwaysConverts(product) == product.price * BDT_TO_USD_DEN

\* product.currency === "BDT" ? product.price : product.price / BDT_TO_USD,
\* in units of 1/BDT_TO_USD_NUM taka
BdtTerm(product) ==
    IF product.currency = "BDT"
    THEN product.price * BDT_TO_USD_NUM
    ELSE product.price * BDT_TO_USD_DEN

\* selections.reduce((total, product) => total + ..., 0)
RECURSIVE SumBdt(_)
SumBdt(sel) ==
    IF sel = <<>> THEN 0 ELSE BdtTerm(Head(sel)) + SumBdt(Tail(sel))

\* what the cart panel shows: selections.length and the two totals
estimatedUsd == SumUsd(selections)
estimatedBdt == SumBdt(selections)

----------------------------------------------------------------------------
(* Inputs *)

Categories == {"Accounts", "Merch"}

NoBadges == [present |-> FALSE, labels |-> <<>>]
Badges(labels) == [present |-> TRUE, labels |-> labels]

\* The products a collection is drawn from (the ids are given by position).
\* USD 91 and BDT 10000 have the same USD-equivalent price, USD 200 is the
\* lowest position of the price cap, BDT 22000 is 200.2 dollars and USD 3500
\* is above the highest position; "soon" and "asap" do not parse.
ProductPool ==
    { [name |-> <<"P","r","o">>, description |-> <<"k","i","t">>,
       badges |-> Badges(<< <<"N","e","w">> >>), category |-> "Accounts",
       currency |-> "USD", price |-> 91, popularity |-> 9,
       fulfillmentTime |-> <<"2","4"," ","h","o","u","r","s">>],
      [name |-> <<"T","e","e">>, description |-> <<"p","r","o">>,
       badges |-> NoBadges, category |-> "Merch",
       currency |-> "BDT", price |-> 10000, popularity |-> 9,
       fulfillmentTime |-> <<"2","-","3"," ","D","a","y","s">>],
      [name |-> <<"C","a","p">>, description |-> <<>>,
       badges |-> Badges(<<>>), category |-> "Merch",
       currency |-> "USD", price |-> 200, popularity |-> 5,
       fulfillmentTime |-> <<"s","o","o","n">>],
      [name |-> <<"A","d">>, description |-> <<"k","i","t">>,
       badges |-> Badges(<< <<"H","o","t">>, <<"V","i","p">> >>),
       category |-> "Accounts",
       currency |-> "BDT", price |-> 22000, popularity |-> 7,
       fulfillmentTime |-> <<"a","s","a","p">>],
      [name |-> <<"B","o","x">>, description |-> <<"v","i","p">>,
       badges |-> NoBadges, category |-> "Accounts",
       currency |-> "USD", price |-> 3500, popularity |-> 7,
       fulfillmentTime |-> <<"1"," ","d","a","y">>] }

ProductIds == <<"p1", "p2", "p3", "p4", "p5", "p6">>

WithIds(profiles) ==
    [i \in 1..Len(profiles) |->
        [id |-> ProductIds[i],
         name |-> profiles[i].name,
         description |-> profiles[i].description,
         badges |-> profiles[i].badges,
         category |-> profiles[i].category,
         currency |-> profiles[i].currency,
         price |-> profiles[i].price,
         popularity |-> profiles[i].popularity,
         fulfillmentTime |-> profiles[i].fulfillmentTime]]

\* the collections of at most MaxItems different products of the pool
Collections ==
    { WithIds(s) :
        s \in { t \in UNION { [1..n -> ProductPool] : n \in 0..MaxItems } :
                  \A i, j \in 1..Len(t) : t[i] = t[j] => i = j } }

\* what the visitor types into the search box
SearchInputs == { <<>>, <<" ", " ">>, <<" ", "T", " ", "h", " ">> }

CategoryInputs == {"All"} \cup Categories
CurrencyInputs == {"Any", "USD", "BDT"}

\* positions of the max-price range input (min 200, max 3000, step 50)
MaxPriceInputs == {200, 3000}

\* Fulfillment texts: pre min link max gap unit post, as in "in 2-3 days";
\* link " to " writes a range whose first number no hyphen follows.
DigitChoices == {<<"2">>, <<"3">>, <<"4">>}

RECURSIVE NumbersOfLength(_)
NumbersOfLength(n) ==
    IF n = 0 THEN {<<>>}
    ELSE { d \o r : d \in DigitChoices, r \in NumbersOfLength(n - 1) }

Numbers == UNION { NumbersOfLength(n) : n \in 1..MaxDigits }

TO == <<" ", "t", "o", " ">>

Phrases ==
    { r \in [pre : {<<>>, <<"i","n"," ">>, <<"g","a","r","b","a","g","e">>},
             min : Numbers \cup {<<>>},
             link : {<<>>, <<"-">>, TO},
             max : DigitChoices \cup {<<>>},
             gap : {<<>>, <<" ">>},
             unit : {<<"h","o","u","r">>, <<"H","O","U","R">>, <<"d","a","y">>,
                     <<"D","a","y">>, <<"m","i","n">>, <<>>},
             post : {<<>>, <<"s">>}] :
        /\ r.link = <<>> <=> r.max = <<>>
        /\ r.min = <<>> => r.link = <<>> }

NoPhrase ==
    [pre |-> <<>>, min |-> <<>>, link |-> <<>>, max |-> <<>>, gap |-> <<>>,
     unit |-> <<>>, post |-> <<>>]

Compose(r) == r.pre \o r.min \o r.link \o r.max \o r.gap \o r.unit \o r.post

\* the sequences without repetition of elements of S
Arrangements(S) ==
    { t \in UNION { [1..n -> S] : n \in 0..Cardinality(S) } :
        \A i, j \in 1..Len(t) : t[i] = t[j] => i = j }

\* Products for the cart summary: A costs 1000 BDT and B costs 10 USD
SummaryPool ==
    { [name |-> <<"A">>, description |-> <<>>,
       badges |-> NoBadges, category |-> "Merch",
       currency |-> "BDT", price |-> 1000, popularity |-> 1,
       fulfillmentTime |-> <<"1"," ","d","a","y">>],
      [name |-> <<"B">>, description |-> <<>>,
       badges |-> NoBadges, category |-> "Accounts",
       currency |-> "USD", price |-> 10, popularity |-> 2,
       fulfillmentTime |-> <<"1"," ","d","a","y">>],
      [name |-> <<"C">>, description |-> <<>>,
       badges |-> NoBadges, category |-> "Accounts",
       currency |-> "BDT", price |-> 22000, popularity |-> 3,
       fulfillmentTime |-> <<"1"," ","d","a","y">>] }

SummaryCollections ==
    { WithIds(s) : s \in { t \in Arrangements(SummaryPool) : Len(t) <= MaxItems } }

\* an id that no product of a collection has
DanglingId == ProductIds[Len(ProductIds)]

\* the id lists the selection state can hold for a collection, and those with
\* an id of a product that is no longer in it
SelectionLists(its) ==
    Arrangements({ its[i].id : i \in 1..Len(its) } \cup {DanglingId})

\* Values outside the closed sets: a currency that is neither USD nor BDT and
\* a sort key that SORTERS does not have
UnknownCurrency == "EUR"
UnknownSort == "newest"

\* the products of SummaryPool, and the same with the unknown currency
EnumPool ==
    SummaryPool \cup { [p EXCEPT !.currency = UnknownCurrency] : p \in SummaryPool }

\* the collections of one product or more, for a conversion to happen
EnumCollections ==
    { WithIds(s) :
        s \in { t \in Arrangements(EnumPool) : Len(t) \in 1..MaxItems } }

\* The attributes min, max and step of the max-price range input
MaxPriceMin == 200
MaxPriceMax == 3000
MaxPriceStep == 50

\* where the thumb of the range input can be dropped: between and beside
\* the steps, and past both ends of the track
RawPositions == { 170 + 50 * k : k \in 0..57 }

\* Sanitize that only keeps the value on the track, as with step="any"
Sanitize_NoStep(raw) ==
    IF raw < MaxPriceMin THEN MaxPriceMin
    ELSE IF raw > MaxPriceMax THEN MaxPriceMax
    ELSE raw

\* the value a range input takes for a position: kept within min..max and
\* moved to the nearest min + k * step, the upper one of two equally near
Sanitize(raw) ==
    IF raw < MaxPriceMin THEN MaxPriceMin
    ELSE IF raw > MaxPriceMax THEN MaxPriceMax
    ELSE MaxPriceMin
            + ((2 * (raw - MaxPriceMin) + MaxPriceStep) \div (2 * MaxPriceStep))
                * MaxPriceStep

\* event.target.value: the number written in decimal digits
RECURSIVE ToDigits(_)
ToDigits(n) ==
    IF n < 10 THEN <<Digits[n + 1]>>
    ELSE ToDigits(n \div 10) \o <<Digits[(n % 10) + 1]>>

DEFAULT_FILTERS ==
    [search |-> <<>>, category |-> "All", currency |-> "Any",
     maxPrice |-> 3000, sort |-> "recommended"]

----------------------------------------------------------------------------
(* The Storefront component *)

Init ==
    /\ items \in Collections
    /\ filters = DEFAULT_FILTERS
    /\ selectedProducts = <<>>
    /\ filteredProducts = ComputeFilteredProducts(items, filters)
    /\ selections = ComputeSelections(items, selectedProducts)
    /\ lastEvent = "init"
    /\ phrase = NoPhrase
    /\ text = <<>>
    /\ hours = POSITIVE_INFINITY

\* setFilters whose render sorts items itself, with no filter in front to
\* copy it
setFilters_SortsInPlace(next) ==
    /\ filters' = next
    /\ items' = Sort(items, next.sort)
    /\ filteredProducts' = Filter(items', next)
    /\ UNCHANGED <<selectedProducts, selections, lastEvent, phrase, text, hours>>

\* setFilters(next): the render that follows recomputes filteredProducts;
\* selections keeps its memoised value, its dependencies being unchanged.
setFilters(next) ==
    /\ filters' = next
    /\ filteredProducts' = ComputeFilteredProducts(items, next)
    /\ UNCHANGED <<items, selectedProducts, selections, lastEvent, phrase, text, hours>>

\* setSelectedProducts whose render keeps the memoised selections, as with
\* selectedProducts missing from the dependencies of the useMemo
setSelectedProducts_StaleSelections(next) ==
    /\ selectedProducts' = next
    /\ UNCHANGED <<items, filters, filteredProducts, selections, phrase, text, hours>>

\* setSelectedProducts(next): the render that follows recomputes selections;
\* filteredProducts keeps its memoised value.
setSelectedProducts(next) ==
    /\ selectedProducts' = next
    /\ selections' = ComputeSelections(items, next)
    /\ UNCHANGED <<items, filters, filteredProducts, phrase, text, hours>>

SetSearch ==
    \E v \in SearchInputs :
        /\ v # filters.search
        /\ setFilters([filters EXCEPT !.search = v])

\* SetCategory that spreads DEFAULT_FILTERS, not the previous configuration
SetCategory_ResetsOthers ==
    \E v \in CategoryInputs :
        /\ v # filters.category
        /\ setFilters([DEFAULT_FILTERS EXCEPT !.category = v])

SetCategory ==
    \E v \in CategoryInputs :
        /\ v # filters.category
        /\ setFilters([filters EXCEPT !.category = v])

SetCurrency ==
    \E v \in CurrencyInputs :
        /\ v # filters.currency
        /\ setFilters([filters EXCEPT !.currency = v])

SetMaxPrice ==
    \E v \in MaxPriceInputs :
        /\ v # filters.maxPrice
        /\ setFilters([filters EXCEPT !.maxPrice = v])

SetSort ==
    \E v \in SortOptions :
        /\ v # filters.sort
        /\ setFilters([filters EXCEPT !.sort = v])

\* toggleSelection(id)
Toggle(id) ==
    /\ setSelectedProducts(toggleSelection(selectedProducts, id))
    /\ lastEvent' = "toggle"

\* ToggleCard with a card for every product of the collection
ToggleCard_AnyProduct ==
    \E i \in 1..Len(items) : Toggle(items[i].id)

\* the button of a product card: one card per displayed product
ToggleCard ==
    \E i \in 1..Len(filteredProducts) : Toggle(filteredProducts[i].id)

\* the Remove button of a cart line: one line per product of selections
CartRemove ==
    \E i \in 1..Len(selections) : Toggle(selections[i].id)

\* "Add full catalog"
AddFullCatalog ==
    /\ setSelectedProducts(AllIds(items))
    /\ lastEvent' = "selectAll"

\* "Clear selection" that unselects the displayed products only
ClearSelection_DisplayedOnly ==
    /\ setSelectedProducts(
           SelectSeq(selectedProducts,
                     LAMBDA id : \A i \in 1..Len(filteredProducts) :
                                    filteredProducts[i].id # id))
    /\ lastEvent' = "clear"

\* "Clear selection"
ClearSelection ==
    /\ setSelectedProducts(<<>>)
    /\ lastEvent' = "clear"

Next ==
    \/ SetSearch
    \/ SetCategory
    \/ SetCurrency
    \/ SetMaxPrice
    \/ SetSort
    \/ ToggleCard
    \/ CartRemove
    \/ AddFullCatalog
    \/ ClearSelection

Spec == Init /\ [][Next]_vars

----------------------------------------------------------------------------
(* The duration parser on its own *)

InitParse ==
    /\ items = <<>>
    /\ filters = DEFAULT_FILTERS
    /\ selectedProducts = <<>>
    /\ filteredProducts = <<>>
    /\ selections = <<>>
    /\ lastEvent = "init"
    /\ phrase \in Phrases
    /\ text = Compose(phrase)
    /\ hours = POSITIVE_INFINITY

ParseFulfillmentTime ==
    /\ lastEvent = "init"
    /\ hours' = parseHours(text)
    /\ lastEvent' = "parseHours"
    /\ UNCHANGED <<items, filters, selectedProducts, filteredProducts,
                   selections, phrase, text>>

NextParse == ParseFulfillmentTime

SpecParse == InitParse /\ [][NextParse]_vars

----------------------------------------------------------------------------
(* The cart summary on its own *)

InitSummary ==
    /\ items \in SummaryCollections
    /\ filters = DEFAULT_FILTERS
    /\ selectedProducts \in SelectionLists(items)
    /\ filteredProducts = ComputeFilteredProducts(items, filters)
    /\ selections = <<>>
    /\ lastEvent = "init"
    /\ phrase = NoPhrase
    /\ text = <<>>
    /\ hours = POSITIVE_INFINITY

\* the render that computes selections, and with it the two totals
RenderSummary ==
    /\ lastEvent = "init"
    /\ selections' = ComputeSelections(items, selectedProducts)
    /\ lastEvent' = "summary"
    /\ UNCHANGED <<items, filters, selectedProducts, filteredProducts,
                   phrase, text, hours>>

NextSummary == RenderSummary

SpecSummary == InitSummary /\ [][NextSummary]_vars

----------------------------------------------------------------------------
(* The view for values outside the enumerated sets *)

InitEnum ==
    /\ items \in EnumCollections
    /\ \E key \in SortOptions \cup {UnknownSort} :
          filters = [DEFAULT_FILTERS EXCEPT !.sort = key]
    /\ selectedProducts = <<>>
    /\ filteredProducts = <<>>
    /\ selections = <<>>
    /\ lastEvent = "init"
    /\ phrase = NoPhrase
    /\ text = <<>>
    /\ hours = POSITIVE_INFINITY

\* the render that computes filteredProducts; no step of it throws
RenderView ==
    /\ lastEvent = "init"
    /\ filteredProducts' = ComputeFilteredProducts(items, filters)
    /\ lastEvent' = "view"
    /\ UNCHANGED <<items, filters, selectedProducts, selections,
                   phrase, text, hours>>

NextEnum == RenderView

SpecEnum == InitEnum /\ [][NextEnum]_vars

----------------------------------------------------------------------------

(* The max-price range input *)

\* the onChange handler of the range input, which fires when the value changes
ChangeMaxPrice(value) ==
    /\ value # filters.maxPrice
    /\ setFilters([filters EXCEPT !.maxPrice = value])

SlideMaxPrice ==
    \E raw \in RawPositions : ChangeMaxPrice(parseInt(ToDigits(Sanitize(raw))))

NextPrice ==
    \/ SlideMaxPrice
    \/ SetCurrency

SpecPrice == Init /\ [][NextPrice]_vars

----------------------------------------------------------------------------

(* Vocabulary of the properties *)

ToSet(seq) == { seq[i] : i \in 1..Len(seq) }

Reverse(seq) == [i \in 1..Len(seq) |-> seq[Len(seq) + 1 - i]]

\* how often product p occurs in seq
Occurrences(seq, p) == Cardinality({ k \in 1..Len(seq) : seq[k] = p })

\* the position in the collection of the product with this id
PositionOf(id) == CHOOSE i \in 1..Len(items) : items[i].id = id

\* out is in picked out of inp by a strictly increasing choice of positions
IsSubsequence(out, inp) ==
    \E f \in [1..Len(out) -> 1..Len(inp)] :
        /\ \A k \in 1..Len(out) : out[k] = inp[f[k]]
        /\ \A k, l \in 1..Len(out) : k < l => f[k] < f[l]

\* s without its leading and trailing spaces
Trimmed(s) ==
    LET inked == { i \in 1..Len(s) : s[i] # " " } IN
    IF inked = {} THEN <<>>
    ELSE SubSeq(s, CHOOSE i \in inked : \A j \in inked : i <= j,
                   CHOOSE i \in inked : \A j \in inked : i >= j)

IsSubstring(q, s) ==
    \E a \in 1..(Len(s) + 1) :
        a + Len(q) - 1 <= Len(s) /\ SubSeq(s, a, a + Len(q) - 1) = q

\* name, description and every badge label, one space between two of them
RECURSIVE SpaceJoined(_)
SpaceJoined(words) ==
    IF words = <<>> THEN <<>>
    ELSE IF Len(words) = 1 THEN words[1]
    ELSE words[1] \o <<" ">> \o SpaceJoined(Tail(words))

SearchedText(p) ==
    toLowerCase(SpaceJoined(<<p.name, p.description>> \o
                            (IF p.badges.present THEN p.badges.labels ELSE <<>>)))

\* the USD-equivalent price is at most cap dollars
UsdPriceAtMost(p, cap) ==
    IF p.currency = "BDT"
    THEN p.price * 91 <= cap * 10000
    ELSE p.price <= cap

\* the USD-equivalent price of p is below that of q
UsdPriceBelow(p, q) ==
    LET tenThousandths(x) ==
            IF x.currency = "BDT" THEN x.price * 91 ELSE x.price * 10000
    IN  tenThousandths(p) < tenThousandths(q)

SameUsdPrice(p, q) == ~UsdPriceBelow(p, q) /\ ~UsdPriceBelow(q, p)

\* the four conditions of the filter, for the current configuration
Admitted(p) ==
    /\ filters.category = "All" \/ filters.category = p.category
    /\ filters.currency = "Any" \/ filters.currency = p.currency
    /\ UsdPriceAtMost(p, filters.maxPrice)
    /\ LET q == toLowerCase(Trimmed(filters.search)) IN
       q = <<>> \/ IsSubstring(q, SearchedText(p))

----------------------------------------------------------------------------
(* Properties *)

\* C1: a product of the collection is displayed if and only if the category
\* filter is "All" or its category, the currency filter is "Any" or its
\* currency, its USD-equivalent price is at most maxPrice, and the trimmed,
\* lower-cased search text is empty or a substring of its lower-cased name,
\* description and badge labels joined by spaces (no badges: nothing added).
C1_FilterMembership ==
    \A i \in 1..Len(items) :
        (\E k \in 1..Len(filteredProducts) : filteredProducts[k] = items[i])
            <=> Admitted(items[i])

\* a search that needs trimming and lower-casing admits a product through its
\* badges and rejects another, and a product without badges is in the
\* collection
C1_Witness ==
    /\ filters.search = <<" ", "T", " ", "h", " ">>
    /\ \E i, j \in 1..Len(items) :
        /\ items[i] \in ToSet(filteredProducts)
        /\ items[j] \notin ToSet(filteredProducts)
        /\ ~items[j].badges.present

\* C2: the output of the filter step is a subsequence of the collection:
\* its products are products of the collection, none twice, in the order of
\* the collection.
C2_FilterSubsequence ==
    LET out == Filter(items, filters) IN
    /\ IsSubsequence(out, items)
    /\ \A k, l \in 1..Len(out) : out[k] = out[l] => k = l

\* under a currency filter the filter step keeps two products, which the
\* sort then displays in the other order
C2_Witness ==
    /\ filters.currency # "Any"
    /\ Len(Filter(items, filters)) >= 2
    /\ filteredProducts # Filter(items, filters)

AllDigits(s) == \A i \in 1..Len(s) : IsDigit(s[i])

AllSpaces(s) == \A i \in 1..Len(s) : IsSpace(s[i])

\* the fulfillment text holds a number, optional white space and a unit
HasDuration(t) ==
    \E a, b \in 1..Len(t) :
        /\ a <= b
        /\ AllDigits(SubSeq(t, a, b))
        /\ \E c \in b..Len(t) :
              AllSpaces(SubSeq(t, b + 1, c)) /\ UnitAt(t, c + 1) # <<>>

\* the parsed hours of p are below those of q (no hours: above all hours)
HoursBelow(p, q) ==
    LET hp == parseHours(p.fulfillmentTime)
        hq == parseHours(q.fulfillmentTime)
    IN  ~hp.inf /\ (hq.inf \/ hp.twice < hq.twice)

\* the comparator of the strategy puts p strictly before q
RanksBefore(strategy, p, q) ==
    CASE strategy = "recommended" -> p.popularity > q.popularity
      [] strategy = "price-asc" -> UsdPriceBelow(p, q)
      [] strategy = "price-desc" -> UsdPriceBelow(q, p)
      [] strategy = "fulfillment" -> HoursBelow(p, q)

\* seq is ordered by the strategy, equal products in collection order
OrderedBy(strategy, seq) ==
    \A k, l \in 1..Len(seq) :
        k < l =>
            /\ ~RanksBefore(strategy, seq[l], seq[k])
            /\ ~RanksBefore(strategy, seq[k], seq[l])
                  => PositionOf(seq[k].id) < PositionOf(seq[l].id)

\* C3: the displayed view is sort(filter(products, config), config.sort):
\* exactly the products the filter admits, each once, in the order of the
\* comparator of the selected strategy (equal products in input order).
C3_ViewIsSortedFilter ==
    /\ \A k \in 1..Len(filteredProducts) : filteredProducts[k] \in ToSet(items)
    /\ \A i \in 1..Len(items) :
          Occurrences(filteredProducts, items[i])
              = IF Admitted(items[i]) THEN 1 ELSE 0
    /\ OrderedBy(filters.sort, filteredProducts)

\* a strategy other than the default displays two products in an order that
\* is not their order in the collection
C3_Witness ==
    /\ filters.sort # "recommended"
    /\ Len(filteredProducts) >= 2
    /\ PositionOf(filteredProducts[1].id) > PositionOf(filteredProducts[2].id)

\* C4: under "recommended" the view is in descending popularity, and products
\* of equal popularity are in their order in the input.
C4_RecommendedOrder ==
    filters.sort = "recommended" =>
        \A k, l \in 1..Len(filteredProducts) :
            k < l =>
                /\ filteredProducts[k].popularity >= filteredProducts[l].popularity
                /\ filteredProducts[k].popularity = filteredProducts[l].popularity
                      => PositionOf(filteredProducts[k].id)
                            < PositionOf(filteredProducts[l].id)

\* after a search that admits everything, two products of equal popularity
\* are displayed under "recommended"
C4_Witness ==
    /\ filters.sort = "recommended"
    /\ filters.search # <<>>
    /\ Len(filteredProducts) >= 2
    /\ filteredProducts[1].popularity = filteredProducts[2].popularity

\* C5: under "price-asc" ("price-desc") the view is in ascending (descending)
\* USD-equivalent price, a BDT price being converted with the fixed rate, and
\* products of equal USD-equivalent price are in their order in the input.
C5_PriceOrder ==
    \A k, l \in 1..Len(filteredProducts) :
        k < l =>
            /\ filters.sort = "price-asc"
                  => ~UsdPriceBelow(filteredProducts[l], filteredProducts[k])
            /\ filters.sort = "price-desc"
                  => ~UsdPriceBelow(filteredProducts[k], filteredProducts[l])
            /\ ( /\ filters.sort \in {"price-asc", "price-desc"}
                 /\ SameUsdPrice(filteredProducts[k], filteredProducts[l]) )
                  => PositionOf(filteredProducts[k].id)
                        < PositionOf(filteredProducts[l].id)

\* under "price-desc" a USD product and a BDT product of the same
\* USD-equivalent price are displayed
C5_Witness ==
    /\ filters.sort = "price-desc"
    /\ Len(filteredProducts) >= 2
    /\ filteredProducts[1].currency # filteredProducts[2].currency
    /\ SameUsdPrice(filteredProducts[1], filteredProducts[2])

NoPriceTies(seq) ==
    \A k, l \in 1..Len(seq) : k # l => ~SameUsdPrice(seq[k], seq[l])

\* C6: when no two of the products have the same USD-equivalent price, the
\* "price-desc" order is the reverse of the "price-asc" order of the same
\* products.
C6_PriceOrdersReversed ==
    /\ ( filters.sort = "price-desc" /\ NoPriceTies(filteredProducts) )
          => filteredProducts = Reverse(ComputeFilteredProducts(
                 items, [filters EXCEPT !.sort = "price-asc"]))
    /\ ( filters.sort = "price-asc" /\ NoPriceTies(filteredProducts) )
          => filteredProducts = Reverse(ComputeFilteredProducts(
                 items, [filters EXCEPT !.sort = "price-desc"]))

\* two products of different USD-equivalent price, one priced in BDT, are
\* displayed under "price-desc"
C6_Witness ==
    /\ filters.sort = "price-desc"
    /\ Len(filteredProducts) >= 2
    /\ NoPriceTies(filteredProducts)
    /\ \E k \in 1..Len(filteredProducts) : filteredProducts[k].currency = "BDT"

\* C7: under "fulfillment" the view is in ascending parsed hours, every
\* product with unparsable text comes after every product whose text parses,
\* products of equal hours (two unparsable ones too) are in their order in
\* the input, and no admitted product is lost to a malformed text.
C7_FulfillmentOrder ==
    filters.sort = "fulfillment" =>
        /\ \A k, l \in 1..Len(filteredProducts) :
              k < l =>
                  /\ ~HoursBelow(filteredProducts[l], filteredProducts[k])
                  /\ ~HasDuration(filteredProducts[k].fulfillmentTime)
                        => ~HasDuration(filteredProducts[l].fulfillmentTime)
                  /\ ~HoursBelow(filteredProducts[k], filteredProducts[l])
                        => PositionOf(filteredProducts[k].id)
                              < PositionOf(filteredProducts[l].id)
        /\ \A i \in 1..Len(items) :
              Admitted(items[i]) => items[i] \in ToSet(filteredProducts)

\* two products with unparsable fulfillment text are displayed under
\* "fulfillment"
C7_Witness ==
    /\ filters.sort = "fulfillment"
    /\ Len(filteredProducts) >= 2
    /\ \A k \in 1..Len(filteredProducts) :
          ~HasDuration(filteredProducts[k].fulfillmentTime)

\* the number a string of digits writes
RECURSIVE PlaceSum(_, _)
PlaceSum(n, i) ==
    IF i > Len(n) THEN 0
    ELSE DigitValue(n[i]) * 10 ^ (Len(n) - i) + PlaceSum(n, i + 1)

NumberValue(n) == PlaceSum(n, 1)

IsUnit(u) == toLowerCase(u) \in {HOUR, DAY}

\* twice the hours of the range lo..hi in the unit u
TwiceHours(lo, hi, u) ==
    (lo + hi) * (IF toLowerCase(u) = DAY THEN 24 ELSE 1)

\* C8 as stated: min is the first number in the text, max the number after a
\* hyphen that follows it (else min), the result (min + max) / 2, times 24
\* for days; +Infinity when the text has no pattern.
ClaimedHours(r) ==
    IF r.min = <<>> \/ ~IsUnit(r.unit) THEN POSITIVE_INFINITY
    ELSE LET first == NumberValue(r.min) IN
         Finite(TwiceHours(first,
                           IF r.link = <<"-">> THEN NumberValue(r.max) ELSE first,
                           r.unit))

C8_Original ==
    lastEvent = "parseHours" => hours = ClaimedHours(phrase)

\* The leftmost <number>[-<number>] <unit> of the phrase: in "2 to 3 days" it
\* is "3 days".
PatternHours(r) ==
    IF r.min = <<>> \/ ~IsUnit(r.unit) THEN POSITIVE_INFINITY
    ELSE LET first == NumberValue(IF r.link = TO THEN r.max ELSE r.min) IN
         Finite(TwiceHours(first,
                           IF r.link = <<"-">> THEN NumberValue(r.max) ELSE first,
                           r.unit))

\* C8 (amended): parseHours takes as min the first number of the leftmost
\* <number>[-<number>] <unit> pattern of the text (a number before it that no
\* unit follows is skipped) and as max the number after the hyphen, else min;
\* it returns (min + max) / 2, times 24 when the unit starts with "day" in
\* any case, and +Infinity when the text has no such pattern.  "24 hours"
\* gives 24, "2-3 days" gives 60 and "garbage" gives +Infinity.
C8_ParseHours ==
    lastEvent = "parseHours" =>
        /\ hours = PatternHours(phrase)
        /\ text = <<"2","4"," ","h","o","u","r","s">> => hours = Finite(2 * 24)
        /\ text = <<"2","-","3"," ","d","a","y","s">> => hours = Finite(2 * 60)
        /\ text = <<"g","a","r","b","a","g","e">> => hours = POSITIVE_INFINITY

\* a range of days written with a capital, parsed after a number that is not
\* part of the pattern
C8_Witness ==
    /\ lastEvent = "parseHours"
    /\ phrase.link = TO
    /\ phrase.min # phrase.max
    /\ phrase.unit = <<"D","a","y">>
    /\ ~hours.inf

\* C9: toggle(id) removes id from the selection when it is there and adds it
\* when it is not, the other ids stay as they are, and a second toggle(id)
\* gives the selection set back.
C9_Toggle ==
    [][ \A id \in ToSet(AllIds(items)) :
          Toggle(id) =>
              /\ id \in ToSet(selectedProducts) <=> id \notin ToSet(selectedProducts')
              /\ ToSet(selectedProducts') \ {id} = ToSet(selectedProducts) \ {id}
              /\ ToSet(toggleSelection(selectedProducts', id))
                    = ToSet(selectedProducts) ]_vars

\* a toggle has removed the last selected product
C9_Witness ==
    /\ lastEvent = "toggle"
    /\ selectedProducts = <<>>
    /\ Len(items) >= 2

\* C10: selectAll leaves exactly the ids of the whole collection selected,
\* each once, whatever was selected and whatever the filters display; so a
\* second selectAll changes nothing.
C10_SelectAll ==
    lastEvent = "selectAll" =>
        /\ Len(selectedProducts) = Len(items)
        /\ \A i \in 1..Len(items) : selectedProducts[i] = items[i].id
        /\ selections = items

\* selectAll has run and the filters hide a product of the collection
C10_Witness ==
    /\ lastEvent = "selectAll"
    /\ Len(items) >= 2
    /\ Len(filteredProducts) < Len(items)

\* C11: after clear the selection is empty whatever was selected before (all
\* of the collection included), and the cart summary shows count 0, USD total
\* 0 and BDT total 0.
C11_Clear ==
    lastEvent = "clear" =>
        /\ selectedProducts = <<>>
        /\ Len(selections) = 0
        /\ estimatedUsd = 0
        /\ estimatedBdt = 0

\* clear has run on a collection of several products that the filters hide
\* in part
C11_Witness ==
    /\ lastEvent = "clear"
    /\ Len(items) >= 2
    /\ Len(filteredProducts) < Len(items)
    /\ selections = <<>>

\* the sum of F over the positions in S
RECURSIVE SumOver(_, _)
SumOver(S, F) ==
    IF S = {} THEN 0
    ELSE LET i == CHOOSE j \in S : TRUE IN F[i] + SumOver(S \ {i}, F)

\* the positions in the collection of the products whose id is selected
SelectedPositions ==
    { i \in 1..Len(items) : \E k \in 1..Len(selectedProducts) :
                                selectedProducts[k] = items[i].id }

\* the USD-equivalent price in ten-thousandths of a dollar, by position
UsdTenThousandths ==
    [i \in 1..Len(items) |->
        IF items[i].currency = "BDT" THEN items[i].price * 91
        ELSE items[i].price * 10000]

\* C12: the summary joins the selection against the collection: count is the
\* number of products of the collection whose id is selected and usdTotal is
\* the sum of their USD-equivalent prices; a selected id that no product has
\* is no error and adds nothing to the count or to a total.
C12_SummaryJoin ==
    lastEvent = "summary" =>
        /\ Len(selections) = Cardinality(SelectedPositions)
        /\ \A i \in 1..Len(items) :
              Occurrences(selections, items[i])
                  = IF i \in SelectedPositions THEN 1 ELSE 0
        /\ estimatedUsd = SumOver(SelectedPositions, UsdTenThousandths)
        /\ DanglingId \in ToSet(selectedProducts) =>
              /\ Len(selections) = Len(selectedProducts) - 1
              /\ \A k \in 1..Len(selections) : selections[k].id # DanglingId

\* the summary of a selection that holds two products of the collection and
\* an id that no product has
C12_Witness ==
    /\ lastEvent = "summary"
    /\ DanglingId \in ToSet(selectedProducts)
    /\ Len(selections) = 2
    /\ estimatedUsd > 0

\* the BDT amount in ninety-firsts of a taka, by position: the price as
\* written of a BDT product, the price divided by 0.0091 of a USD product
BdtNinetyFirsts ==
    [i \in 1..Len(items) |->
        IF items[i].currency = "USD" THEN items[i].price * 10000
        ELSE items[i].price * 91]

\* the names of the products in the cart
CartNames == { selections[k].name : k \in 1..Len(selections) }

\* C13: bdtTotal is the sum over the selected products of the raw price of a
\* BDT product and of price / 0.0091 of a USD product.  With A = 1000 BDT and
\* B = 10 USD selected: count 2, usdTotal 19.1 = 191000 / 10000 and
\* bdtTotal 1000 + 10 / 0.0091 = 191000 / 91.
C13_BdtTotal ==
    lastEvent = "summary" =>
        /\ estimatedBdt = SumOver(SelectedPositions, BdtNinetyFirsts)
        /\ CartNames = {<<"A">>, <<"B">>} =>
              /\ Len(selections) = 2
              /\ estimatedUsd = 191000
              /\ estimatedBdt = 191000
              /\ estimatedBdt = 1000 * 91 + 10 * 10000

\* A and B are both in the cart, B selected first
C13_Witness ==
    /\ lastEvent = "summary"
    /\ CartNames = {<<"A">>, <<"B">>}
    /\ Len(selectedProducts) >= 2
    /\ \E k \in 1..Len(selections) :
          selections[k].name = <<"B">> /\ selectedProducts[1] = selections[k].id

C15_CollectionUnchanged == [][items' = items]_vars

\* a view sorted into another order than the collection's, all of it
\* displayed, with a product in the cart
C15_Witness ==
    /\ filters.sort # "recommended"
    /\ Len(filteredProducts) = Len(items)
    /\ filteredProducts # items
    /\ lastEvent = "toggle"
    /\ selections # <<>>

\* C16: events are processed one at a time (a step changes the configuration
\* or the selection, never both), and after every event the displayed view
\* is the one derived from the current configuration and the summary the one
\* derived from the current selection: nothing stale is ever shown.
C16_NoStaleView ==
    [][ /\ filters' = filters \/ selectedProducts' = selectedProducts
        /\ filteredProducts' = ComputeFilteredProducts(items', filters')
        /\ selections' = ComputeSelections(items', selectedProducts')
        /\ Len(selections') = Cardinality(SelectedPositions')
        /\ estimatedUsd' = SumOver(SelectedPositions', UsdTenThousandths')
        /\ estimatedBdt' = SumOver(SelectedPositions', BdtNinetyFirsts') ]_vars

\* the configuration has been changed and then the selection: the view hides
\* a product and the cart holds one
C16_Witness ==
    /\ filters # DEFAULT_FILTERS
    /\ lastEvent = "toggle"
    /\ Len(filteredProducts) < Len(items)
    /\ Len(selections) >= 1
    /\ Len(selections) < Len(items)

FilterFields == {"search", "category", "currency", "maxPrice", "sort"}

\* C17: the cart summary does not depend on the configuration: a change of
\* search, category, currency, maxPrice or sort changes that one field only
\* and leaves the selection, the cart, the count and both totals as they
\* were, so that a selected product counts whether the view shows it or not;
\* and toggle, selectAll and clear leave the whole configuration as it was.
C17_SummaryIndependentOfFilters ==
    [][ /\ filters' # filters =>
              /\ Cardinality({ f \in FilterFields : filters'[f] # filters[f] }) = 1
              /\ selectedProducts' = selectedProducts
              /\ selections' = selections
              /\ Len(selections') = Len(selections)
              /\ estimatedUsd' = estimatedUsd
              /\ estimatedBdt' = estimatedBdt
        /\ (selectedProducts' # selectedProducts \/ lastEvent' # lastEvent) =>
              filters' = filters
        /\ \A i \in 1..Len(items') :
              (\E k \in 1..Len(selectedProducts') :
                    selectedProducts'[k] = items'[i].id)
                  => \E k \in 1..Len(selections') : selections'[k] = items'[i] ]_vars

\* a product is in the cart, with its price in the totals, while the
\* configuration, changed in two fields, hides it
C17_Witness ==
    /\ filters.category # "All"
    /\ filters.sort # "recommended"
    /\ \E k \in 1..Len(selections) :
          /\ selections[k] \notin ToSet(filteredProducts)
          /\ estimatedUsd >= UsdTenThousandths[PositionOf(selections[k].id)]
    /\ estimatedUsd > 0

\* C18: the ids of a collection being unique, the selection list never holds
\* an id twice in a state reached from the empty selection by toggle,
\* selectAll and clear, so the count of the summary is the length of the
\* selection list.
C18_NoDuplicateIds ==
    /\ \A k, l \in 1..Len(selectedProducts) :
          selectedProducts[k] = selectedProducts[l] => k = l
    /\ Len(selections) = Len(selectedProducts)

\* after selectAll, a product has been toggled out and in again: its id now
\* stands last in the list, behind a later product's
C18_Witness ==
    /\ lastEvent = "toggle"
    /\ Len(items) >= 2
    /\ Len(selectedProducts) = Len(items)
    /\ selectedProducts[Len(selectedProducts)] = items[1].id

\* C19: the selection holds only ids of products of the collection, and a
\* toggle adds a product only while the view displays it (toggle is offered
\* on the cards of the displayed products and on the lines of the cart): a
\* product neither displayed nor selected becomes selected through selectAll
\* only.
C19_ToggleOnlyDisplayed ==
    [][ /\ \A k \in 1..Len(selectedProducts') :
              \E i \in 1..Len(items') : items'[i].id = selectedProducts'[k]
        /\ \A i \in 1..Len(items) :
              ( /\ items[i].id \notin ToSet(selectedProducts)
                /\ items[i].id \in ToSet(selectedProducts') )
              => \/ lastEvent' = "selectAll"
                 \/ /\ lastEvent' = "toggle"
                    /\ items[i] \in ToSet(filteredProducts) ]_vars

\* a toggle has added a displayed product while the view hides another
\* product, which is not selected
C19_Witness ==
    /\ lastEvent = "toggle"
    /\ Len(selectedProducts) = 1
    /\ \E i, j \in 1..Len(items) :
          /\ items[i].id = selectedProducts[1]
          /\ items[i] \in ToSet(filteredProducts)
          /\ items[j] \notin ToSet(filteredProducts)
          /\ items[j].id \notin ToSet(selectedProducts)

\* C20: the cart and its summary depend on which ids are selected, not on
\* the order they were selected in: every order of the same ids gives the
\* same cart lines, count, usdTotal and bdtTotal, and the cart lists the
\* selected products in the order of the collection.
C20_OrderIndependent ==
    /\ \A other \in Arrangements(ToSet(selectedProducts)) :
          Len(other) = Len(selectedProducts) =>
              /\ ComputeSelections(items, other) = selections
              /\ Len(ComputeSelections(items, other)) = Len(selections)
              /\ SumUsd(ComputeSelections(items, other)) = estimatedUsd
              /\ SumBdt(ComputeSelections(items, other)) = estimatedBdt
    /\ \A k, l \in 1..Len(selections) :
          k < l => PositionOf(selections[k].id) < PositionOf(selections[l].id)
    /\ estimatedUsd = SumOver(SelectedPositions, UsdTenThousandths)
    /\ estimatedBdt = SumOver(SelectedPositions, BdtNinetyFirsts)

\* two products were selected in the reverse of their order in the
\* collection
C20_Witness ==
    /\ Len(selectedProducts) = 2
    /\ Len(selections) = 2
    /\ selectedProducts[1] = selections[2].id
    /\ selectedProducts[2] = selections[1].id
    /\ lastEvent = "toggle"

\* C21: maxPrice is always a multiple of 50 from 200 to 3000 (3000 at the
\* start), so no product whose USD-equivalent price is above 3000 is ever
\* displayed, and the initial configuration displays every product whose
\* USD-equivalent price is at most 3000.
C21_MaxPriceRange ==
    /\ filters.maxPrice % 50 = 0
    /\ filters.maxPrice >= 200
    /\ filters.maxPrice <= 3000
    /\ DEFAULT_FILTERS.maxPrice = 3000
    /\ \A k \in 1..Len(filteredProducts) :
          UsdPriceAtMost(filteredProducts[k], 3000)
    /\ filters = DEFAULT_FILTERS =>
          \A i \in 1..Len(items) :
              UsdPriceAtMost(items[i], 3000)
                  => items[i] \in ToSet(filteredProducts)

\* the thumb was dropped between two steps inside the track; the view
\* displays a product and hides one that costs more than 3000 dollars
C21_Witness ==
    /\ filters.maxPrice = 1250
    /\ Len(filteredProducts) >= 1
    /\ \E i \in 1..Len(items) : ~UsdPriceAtMost(items[i], 3000)

====
